---------------------------- MODULE Spec2Model ----------------------------
(***************************************************************************)
(* A model of the student report generator (emahayni/teaching):            *)
(*   Student_Report_Generator/Reports_Generator.py   (main pipeline)       *)
(*   Student_Report_Generator/marking_automation.py  (same pipeline, split)*)
(*   Student_Report_Generator/marking_utils.py       (shared helpers)      *)
(*   Student_Report_Generator/reports_generater.py   (first generator)     *)
(*   Student_Report_Generator/Moodle_Batch_Upload.py (reference update)    *)
(*                                                                         *)
(* Python strings are sequences of one-character strings, so that          *)
(* lower-casing, suffix removal, splitting and concatenation are computed  *)
(* as the code computes them.  A missing pandas value is NaN.              *)
(***************************************************************************)
EXTENDS Integers, Sequences, FiniteSets, TLC

VARIABLES
    pc,              \* position in the running script
    config,          \* the loaded configuration (constant during a run)
    marking_file,    \* rows of the marking sheet on disk
    reference_file,  \* rows of the Moodle/reference export on disk
    df_marking,      \* the marks DataFrame
    df_reference,    \* the reference DataFrame
    folder,          \* the output folder: [exists, entries]
    moodle,          \* the Moodle folder: [export, archive]
    row_range,       \* <<start_idx, end_idx>> used by generate_reports
    index,           \* number of rows of the slice already iterated
    generated_count, \* generate_reports' counter
    saved,           \* names passed to wb.save / doc.save, in order
    log,             \* diagnostics printed so far
    error,           \* the uncaught exception that ended the run, if any
    arg,             \* argument of a function called on its own
    res              \* its result

vars == <<pc, config, marking_file, reference_file, df_marking, df_reference,
          folder, moodle, row_range, index, generated_count, saved, log, error,
          arg, res>>

----------------------------------------------------------------------------
(* Bounds of the model.                                                    *)

MaxRows == 2        \* rows of a marking sheet
MaxRefRows == 2     \* rows of a reference export
MaxTotal == 10      \* table length given to validate_row_limits on its own
MaxLocal == 2       \* characters before the domain in an e-mail address
MaxLetters == 2     \* column letters of a cell address

----------------------------------------------------------------------------
(* Strings.                                                                *)

NaN == <<"NaN">>            \* pandas' missing value (float nan / None)
IsNa(x) == x = NaN          \* pd.isna

Range(s) == {s[k] : k \in 1..Len(s)}

\* the sequences over S of length at most n
Seqs(S, n) == UNION {[1..k -> S] : k \in 0..n}

\* str.lower() on one character
LowerChar(c) ==
    CASE c = "A" -> "a" [] c = "B" -> "b" [] c = "C" -> "c" [] c = "D" -> "d"
      [] c = "E" -> "e" [] c = "F" -> "f" [] c = "G" -> "g" [] c = "H" -> "h"
      [] c = "I" -> "i" [] c = "J" -> "j" [] c = "K" -> "k" [] c = "L" -> "l"
      [] c = "M" -> "m" [] c = "N" -> "n" [] c = "O" -> "o" [] c = "P" -> "p"
      [] c = "Q" -> "q" [] c = "R" -> "r" [] c = "S" -> "s" [] c = "T" -> "t"
      [] c = "U" -> "u" [] c = "V" -> "v" [] c = "W" -> "w" [] c = "X" -> "x"
      [] c = "Y" -> "y" [] c = "Z" -> "z" [] OTHER -> c

\* Series.str.lower(): NaN stays NaN
str_lower(s) == IF IsNa(s) THEN NaN ELSE [k \in 1..Len(s) |-> LowerChar(s[k])]

StartsWith(s, p) == Len(s) >= Len(p) /\ SubSeq(s, 1, Len(p)) = p
EndsWith(s, p) ==
    Len(s) >= Len(p) /\ SubSeq(s, Len(s) - Len(p) + 1, Len(s)) = p

\* str.replace(old, "") : every non-overlapping occurrence, left to right
RECURSIVE RemoveAll(_, _)
RemoveAll(s, old) ==
    IF Len(s) < Len(old) THEN s
    ELSE IF StartsWith(s, old)
         THEN RemoveAll(SubSeq(s, Len(old) + 1, Len(s)), old)
         ELSE <<Head(s)>> \o RemoveAll(Tail(s), old)

\* Series.str.replace(old, "", regex=False): NaN stays NaN
str_replace(s, old) == IF IsNa(s) THEN NaN ELSE RemoveAll(s, old)

\* Series + Series / str + Series: NaN if either side is NaN
Cat(a, b) == IF IsNa(a) \/ IsNa(b) THEN NaN ELSE a \o b

KentSuffix == <<"@", "k", "e", "n", "t", ".", "a", "c", ".", "u", "k">>

\* df["Login"] = df["Login"].str.lower()
marks_login(x) == str_lower(x)

\* df["Login"] = df["Email address"].str.replace("@kent.ac.uk", "", regex=False)
\* df["Login"] = df["Login"].str.lower()
reference_login(email) == str_lower(str_replace(email, KentSuffix))

----------------------------------------------------------------------------
(* Configuration values of start_row / end_row: an int, None (absent), or  *)
(* something that is not an int (a string, a float).                       *)

Int_(n) == [t |-> "int", v |-> n]
None == [t |-> "none", v |-> 0]
NotInt == [t |-> "other", v |-> 0]
IsInt(x) == x.t = "int"

Min(a, b) == IF a <= b THEN a ELSE b

\* a faulty variant: an end equal to the start is rejected too
validate_row_limits_le(start_row, end_row, total_rows) ==
    LET s == IF ~IsInt(start_row) \/ start_row.v < 1 THEN 1
             ELSE IF start_row.v > total_rows THEN 1
             ELSE start_row.v
        e == IF end_row = None THEN None
             ELSE IF ~IsInt(end_row) \/ end_row.v <= s THEN Int_(total_rows)
             ELSE Int_(Min(end_row.v, total_rows))
    IN  <<s - 1, e>>

\* a faulty variant: a start beyond the table is kept
validate_row_limits_beyond(start_row, end_row, total_rows) ==
    LET s == IF ~IsInt(start_row) \/ start_row.v < 1 THEN 1
             ELSE start_row.v
        e == IF end_row = None THEN None
             ELSE IF ~IsInt(end_row) \/ end_row.v < s THEN Int_(total_rows)
             ELSE Int_(Min(end_row.v, total_rows))
    IN  <<s - 1, e>>

\* validate_row_limits: returns <<start_idx, end_idx>>, end_idx None or an int
validate_row_limits(start_row, end_row, total_rows) ==
    LET s == IF ~IsInt(start_row) \/ start_row.v < 1 THEN 1
             ELSE IF start_row.v > total_rows THEN 1
             ELSE start_row.v
        e == IF end_row = None THEN None
             ELSE IF ~IsInt(end_row) \/ end_row.v < s THEN Int_(total_rows)
             ELSE Int_(Min(end_row.v, total_rows))
    IN  <<s - 1, e>>

\* df.iloc[start_idx:end_idx] as the 1-based positions it selects
iloc(total, r) ==
    LET lo == r[1] + 1
        hi == IF r[2] = None THEN total ELSE Min(r[2].v, total)
    IN  IF lo > hi THEN {} ELSE lo..hi

----------------------------------------------------------------------------
(* Tables.  A row is a record column -> value; "_index" is the pandas      *)
(* index label of the row, every other value is a string or NaN.           *)

row_get(row, column) == IF column \in DOMAIN row THEN row[column] ELSE NaN

Column(df, column) == [k \in 1..Len(df) |-> row_get(df[k], column)]

\* df[column] = values (one value per row)
SetColumn(df, column, values) ==
    [k \in 1..Len(df) |->
        [c \in DOMAIN df[k] \cup {column} |->
            IF c = column THEN values[k] ELSE df[k][c]]]

\* df.drop(columns=...)
DropColumns(df, columns) ==
    [k \in 1..Len(df) |-> [c \in DOMAIN df[k] \ columns |-> df[k][c]]]

\* pd.read_excel / pd.read_csv: the rows of the file, labelled 0..n-1
read_table(rows) ==
    [k \in 1..Len(rows) |-> rows[k] @@ ("_index" :> k - 1)]

\* Series.isin(values)
isin(x, values) == x \in Range(values)

\* df[mask]: the rows whose mask is TRUE, in their order, labels kept
RECURSIVE Filter(_, _)
Filter(df, mask) ==
    IF df = <<>> THEN <<>>
    ELSE (IF mask[1] THEN <<Head(df)>> ELSE <<>>)
         \o Filter(Tail(df), Tail(mask))

\* Index.is_unique
IsUnique(values) ==
    \A a, b \in 1..Len(values) : values[a] = values[b] => a = b

\* Series.map(other.set_index(key)[column]) for a unique key: the value of
\* the row of `other` with that key, NaN when there is none
Lookup(other, key, column, x) ==
    IF \E k \in 1..Len(other) : other[k][key] = x
    THEN other[CHOOSE k \in 1..Len(other) : other[k][key] = x][column]
    ELSE NaN

\* Series.str needs an object column: a non-empty column that holds only
\* NaN is float64 and .str raises AttributeError
HasStr(values) == values = <<>> \/ \E k \in 1..Len(values) : ~IsNa(values[k])

----------------------------------------------------------------------------
(* Names and literals.                                                     *)

Xlsx == <<".", "x", "l", "s", "x">>
Docx == <<".", "d", "o", "c", "x">>
Txt == <<".", "t", "x", "t">>
Csv == <<".", "c", "s", "v">>
Xls == <<".", "x", "l", "s">>
Dash == <<"-">>
Underscore == <<"_">>
Space == <<" ">>
ModuleName == <<"M">>
AssignmentName == <<"A">>
Released == <<"R", "e", "l", "e", "a", "s", "e", "d">>
NA == <<"N", "/", "A">>

\* f"_assignsubmission_file_{module_name}_{assignment_name}_Feedback - "
sub_str(module_name, assignment_name) ==
    <<"_", "a", "s", "s", "i", "g", "n", "s", "u", "b", "m", "i", "s", "s",
      "i", "o", "n", "_", "f", "i", "l", "e", "_">>
    \o module_name \o Underscore \o assignment_name
    \o <<"_", "F", "e", "e", "d", "b", "a", "c", "k", " ", "-", " ">>

\* f"{module_name}_{assignment_name}_Reports.zip"
zip_filename(module_name, assignment_name) ==
    module_name \o Underscore \o assignment_name
    \o <<"_", "R", "e", "p", "o", "r", "t", "s", ".", "z", "i", "p">>

\* the position of the first occurrence of character c in s, 0 if none
IndexOf(s, c) ==
    IF \E k \in 1..Len(s) : s[k] = c
    THEN CHOOSE k \in 1..Len(s) : s[k] = c /\ \A j \in 1..(k - 1) : s[j] # c
    ELSE 0

\* str(x).split(" ")[1] if isinstance(x, str) and " " in x else ""
submission_id(x) ==
    IF IsNa(x) \/ IndexOf(x, " ") = 0 THEN <<>>
    ELSE LET rest == SubSeq(x, IndexOf(x, " ") + 1, Len(x))
             stop == IndexOf(rest, " ")
         IN  IF stop = 0 THEN rest ELSE SubSeq(rest, 1, stop - 1)

----------------------------------------------------------------------------
(* Folders.  entries maps a name to [dir, content]; the content of a       *)
(* document maps <<row, column>> to the text of that cell.                 *)

Put(entries, name, entry) ==
    [n \in DOMAIN entries \cup {name} |->
        IF n = name THEN entry ELSE entries[n]]

Remove(entries, names) == [n \in DOMAIN entries \ names |-> entries[n]]

File(content) == [dir |-> FALSE, content |-> content]
Dir == [dir |-> TRUE, content |-> <<>>]

\* os.makedirs(output_folder, exist_ok=True)
makedirs(f) == IF f.exists THEN f ELSE [exists |-> TRUE, entries |-> <<>>]

\* a faulty variant: nothing is removed
clean_output_folder_keep(f) == f

\* clean_output_folder: os.remove every listed name ending in ".xlsx"
clean_output_folder(f) ==
    IF f.exists
    THEN [f EXCEPT !.entries =
            Remove(f.entries, {n \in DOMAIN f.entries : EndsWith(n, Xlsx)})]
    ELSE f

\* zip_output_files: zipf.write(path, file) for every name os.listdir gives;
\* ZipFile.write of a directory adds the entry "<name>/" and nothing below it
zip_entries(f) ==
    {[name |-> IF f.entries[n].dir THEN n \o <<"/">> ELSE n,
      content |-> IF f.entries[n].dir THEN <<>> ELSE f.entries[n].content] :
        n \in DOMAIN f.entries}

----------------------------------------------------------------------------
(* Templates and the two writers.                                          *)

Letters ==
    <<"A", "B", "C", "D", "E", "F", "G", "H", "I", "J", "K", "L", "M",
      "N", "O", "P", "Q", "R", "S", "T", "U", "V", "W", "X", "Y", "Z">>
Digits == <<"0", "1", "2", "3", "4", "5", "6", "7", "8", "9">>

\* str.upper() on one character
UpperChar(c) ==
    CASE c = "a" -> "A" [] c = "b" -> "B" [] c = "c" -> "C" [] c = "d" -> "D"
      [] c = "e" -> "E" [] c = "f" -> "F" [] c = "g" -> "G" [] c = "h" -> "H"
      [] c = "i" -> "I" [] c = "j" -> "J" [] c = "k" -> "K" [] c = "l" -> "L"
      [] c = "m" -> "M" [] c = "n" -> "N" [] c = "o" -> "O" [] c = "p" -> "P"
      [] c = "q" -> "Q" [] c = "r" -> "R" [] c = "s" -> "S" [] c = "t" -> "T"
      [] c = "u" -> "U" [] c = "v" -> "V" [] c = "w" -> "W" [] c = "x" -> "X"
      [] c = "y" -> "Y" [] c = "z" -> "Z" [] OTHER -> c

LetterSet == Range(Letters)
DigitSet == Range(Digits)
IsLetter(c) == UpperChar(c) \in LetterSet
IsDigit(c) == c \in DigitSet

\* the position of a letter in the alphabet, 1..26
LetterNo(c) ==
    CASE c = "A" -> 1 [] c = "B" -> 2 [] c = "C" -> 3 [] c = "D" -> 4
      [] c = "E" -> 5 [] c = "F" -> 6 [] c = "G" -> 7 [] c = "H" -> 8
      [] c = "I" -> 9 [] c = "J" -> 10 [] c = "K" -> 11 [] c = "L" -> 12
      [] c = "M" -> 13 [] c = "N" -> 14 [] c = "O" -> 15 [] c = "P" -> 16
      [] c = "Q" -> 17 [] c = "R" -> 18 [] c = "S" -> 19 [] c = "T" -> 20
      [] c = "U" -> 21 [] c = "V" -> 22 [] c = "W" -> 23 [] c = "X" -> 24
      [] c = "Y" -> 25 [] c = "Z" -> 26 [] OTHER -> LET u == UpperChar(c) IN CHOOSE k \in 1..26 : Letters[k] = u

DigitVal(c) ==
    CASE c = "0" -> 0 [] c = "1" -> 1 [] c = "2" -> 2 [] c = "3" -> 3
      [] c = "4" -> 4 [] c = "5" -> 5 [] c = "6" -> 6 [] c = "7" -> 7
      [] c = "8" -> 8 [] c = "9" -> 9 [] OTHER -> 0

\* ord(c) for letters and digits
Ord(c) == IF IsDigit(c) THEN 48 + DigitVal(c)
          ELSE IF UpperChar(c) = c THEN 64 + LetterNo(c)
          ELSE 96 + LetterNo(c)

\* int(s) for a string of decimal digits
RECURSIVE ToInt(_)
ToInt(s) ==
    IF Len(s) = 0 THEN 0
    ELSE 10 * ToInt(SubSeq(s, 1, Len(s) - 1)) + DigitVal(s[Len(s)])

IsNumber(s) == Len(s) > 0 /\ \A k \in 1..Len(s) : IsDigit(s[k])

\* the number of leading letters of a cell reference
LetterPrefix(ref) ==
    IF \E k \in 1..Len(ref) : ~IsLetter(ref[k])
    THEN (CHOOSE k \in 1..Len(ref) :
            ~IsLetter(ref[k]) /\ \A j \in 1..(k - 1) : IsLetter(ref[j])) - 1
    ELSE Len(ref)

RECURSIVE ColumnNo(_)
ColumnNo(letters) ==
    IF Len(letters) = 0 THEN 0
    ELSE 26 * ColumnNo(SubSeq(letters, 1, Len(letters) - 1))
         + LetterNo(letters[Len(letters)])

\* openpyxl ws["B2"]: the 1-based <<row, column>> of a cell address
cell_coordinate(ref) ==
    <<ToInt(SubSeq(ref, LetterPrefix(ref) + 1, Len(ref))),
      ColumnNo(SubSeq(ref, 1, LetterPrefix(ref)))>>

\* excel_ref_to_index / excel_cell_ref_to_indices
excel_ref_to_index(ref) ==
    <<ToInt(SubSeq(ref, 2, Len(ref))) - 1, Ord(UpperChar(ref[1])) - Ord("A")>>

\* int(ref[1:]) raises ValueError unless ref[1:] is a decimal number
excel_ref_to_index_raises(ref) == ~IsNumber(SubSeq(ref, 2, Len(ref)))

\* the workbook template: its active sheet's cells
TemplateXlsx == (<<1, 1>> :> <<"N", "a", "m", "e">>) @@ (<<4, 4>> :> <<"T">>)

\* the Word template: the cells of its first table (3 x 3)
TemplateDocx ==
    [c \in (0..2) \X (0..2) |-> IF c = <<0, 1>> THEN <<"T">> ELSE <<>>]

\* config["mapping"]: column name -> cell reference, in the file's order
Mapping ==
    << <<"Login", <<"A", "1">> >>,
       <<"Grade", <<"B", "2">> >>,
       <<"Comment", <<"C", "3">> >> >>

Last(S) == CHOOSE k \in S : \A j \in S : j <= k

\* a faulty variant: the cells the mapping does not name are blanked
FillCells_blank(template, mapping, row, targets, empty) ==
    [c \in DOMAIN template \cup Range(targets) |->
        IF c \in Range(targets)
        THEN LET column == mapping[Last({k \in 1..Len(mapping) :
                                            targets[k] = c})][1]
                 value == IF column \in DOMAIN row THEN row[column] ELSE NA
             IN  IF IsNa(value) THEN empty ELSE value
        ELSE <<>>]

\* for column_name, cell_reference in mapping.items():
\*     value = row.get(column_name, "N/A")
\*     <cell> = value if not pd.isna(value) else <empty>
\* targets[k] is the cell of the k-th pair; a later pair overwrites an
\* earlier one that names the same cell
FillCells(template, mapping, row, targets, empty) ==
    [c \in DOMAIN template \cup Range(targets) |->
        IF c \in Range(targets)
        THEN LET column == mapping[Last({k \in 1..Len(mapping) :
                                            targets[k] = c})][1]
                 value == IF column \in DOMAIN row THEN row[column] ELSE NA
             IN  IF IsNa(value) THEN empty ELSE value
        ELSE template[c]]

\* ws[cell_reference] = value if not pd.isna(value) else ""
write_to_excel_file(mapping, row) ==
    FillCells(TemplateXlsx, mapping, row,
        [k \in 1..Len(mapping) |-> cell_coordinate(mapping[k][2])], <<>>)

\* table.cell(*excel_ref_to_index(cell_reference)).text = str(cell_val)
write_to_word_file(mapping, row) ==
    FillCells(TemplateDocx, mapping, row,
        [k \in 1..Len(mapping) |-> excel_ref_to_index(mapping[k][2])], <<>>)

\* reports_generater.py: ws[cell_reference] = value if not NaN else "N/A"
write_sheet(mapping, row) ==
    FillCells(TemplateXlsx, mapping, row,
        [k \in 1..Len(mapping) |-> cell_coordinate(mapping[k][2])], NA)

----------------------------------------------------------------------------
(* The state of a script that is not running (used while a function is     *)
(* exercised on its own).                                                  *)

NoFolder == [exists |-> FALSE, entries |-> <<>>]
NoMoodle == [export |-> <<>>, exported |-> FALSE, archive |-> {},
             archived |-> FALSE]
NoConfig == [key_column |-> "Login"]
NoError == [type |-> "none", at |-> "none"]

Idle ==
    /\ config = NoConfig
    /\ marking_file = <<>>
    /\ reference_file = <<>>
    /\ df_marking = <<>>
    /\ df_reference = <<>>
    /\ folder = NoFolder
    /\ moodle = NoMoodle
    /\ row_range = <<0, None>>
    /\ index = 0
    /\ generated_count = 0
    /\ saved = <<>>
    /\ log = <<>>
    /\ error = NoError

IdleUnchanged ==
    UNCHANGED <<config, marking_file, reference_file, df_marking,
                df_reference, folder, moodle, row_range, index,
                generated_count, saved, log, error>>

----------------------------------------------------------------------------
(* The inputs of a run.                                                    *)

\* rows a marking sheet may hold
MarkRows ==
    { ("Login" :> <<"a">>) @@ ("ID" :> <<"1">>) @@ ("Grade" :> <<"6", "8">>),
      ("Login" :> <<"A">>) @@ ("ID" :> <<"2">>) @@ ("Grade" :> NaN),
      ("Login" :> <<"c">>) @@ ("ID" :> NaN) @@ ("Grade" :> <<"4", "0">>),
      ("Login" :> NaN) @@ ("ID" :> <<"4">>) @@ ("Grade" :> NaN) }

\* rows a reference export may hold
ReferenceRows ==
    { ("Email address" :> <<"a">> \o KentSuffix) @@ ("Full name" :> <<"X">>)
        @@ ("Identifier" :> <<"P", " ", "7">>),
      ("Email address" :> <<"c">> \o KentSuffix) @@ ("Full name" :> <<"Y">>)
        @@ ("Identifier" :> <<"P", "8">>),
      ("Email address" :> <<"A">> \o KentSuffix) @@ ("Full name" :> <<"Z">>)
        @@ ("Identifier" :> NaN) }

\* what the output folder may hold when the script starts
OldXlsx == <<"o">> \o Xlsx
OldDocx == <<"o">> \o Docx
Renamed == <<"r", "e", "n", "a", "m", "e", "d">>
OldContent == (<<1, 1>> :> <<"o", "l", "d">>)

Folders ==
    { NoFolder,
      [exists |-> TRUE,
       entries |-> (OldXlsx :> File(OldContent)) @@ (OldDocx :> File(OldContent))],
      [exists |-> TRUE,
       entries |-> (OldDocx :> File(OldContent)) @@ (Renamed :> Dir)] }

\* (start_row, end_row) of a configuration
Ranges ==
    { <<Int_(1), None>>, <<Int_(2), None>>, <<Int_(1), Int_(1)>> }

Config(v, p, k, r, e) ==
    [variant |-> v, prepare_moodle_files |-> p, key_column |-> k,
     start_row |-> r[1], end_row |-> r[2], ext |-> e, marking_ext |-> Xlsx,
     module_name |-> ModuleName, assigment_name |-> AssignmentName,
     marking_workflow_state |-> Released, mapping |-> Mapping]

\* "moodle": Reports_Generator.py / marking_automation.py (generating
\* reports); "sheets": reports_generater.py; "batch": Moodle_Batch_Upload.py
Configs ==
    {Config("moodle", p, k, r, e) :
        p \in {0, 1}, k \in {"Login", "ID"}, r \in Ranges,
        e \in {Xlsx, Docx, Txt}}
    \cup {Config("sheets", 0, k, r, Xlsx) : k \in {"ID", "Key"}, r \in Ranges}
    \cup {Config("batch", 1, "Login", <<Int_(1), None>>, Xlsx)}
    \cup {[Config("moodle", p, "Login", <<Int_(1), None>>, Xlsx)
              EXCEPT !.marking_ext = e] :
            p \in {0, 1}, e \in {Csv, <<".", "X", "L", "S", "X">>, Txt}}

Init ==
    /\ pc = "start"
    /\ config \in Configs
    /\ marking_file \in Seqs(MarkRows, MaxRows)
    /\ reference_file \in
         IF config.prepare_moodle_files = 1
         THEN Seqs(ReferenceRows, MaxRefRows) ELSE {<<>>}
    /\ folder \in IF config.variant = "batch" THEN {NoFolder} ELSE Folders
    /\ df_marking = <<>>
    /\ df_reference = <<>>
    /\ moodle = NoMoodle
    /\ row_range = <<0, None>>
    /\ index = 0
    /\ generated_count = 0
    /\ saved = <<>>
    /\ log = <<>>
    /\ error = NoError
    /\ arg = <<>>
    /\ res = <<>>

Raise(type) ==
    /\ error' = [type |-> type, at |-> pc]
    /\ pc' = "crashed"

Moodle == config.variant = "moodle"
Sheets == config.variant = "sheets"
Batch == config.variant = "batch"

----------------------------------------------------------------------------
(* main / generating_reports, step by step.                                *)

\* main line 236: clean_output_folder(output_folder)
clean_first ==
    /\ pc = "start"
    /\ Moodle
    /\ folder' = clean_output_folder(folder)
    /\ pc' = "cleaned"
    /\ UNCHANGED <<config, marking_file, reference_file, df_marking,
                   df_reference, moodle, row_range, index, generated_count,
                   saved, log, error, arg, res>>

\* load_marking_sheet, and main line 238:
\* df["feedback_filename"] = module_name + "-" + assignment_name + "-" + Login
load_marking_sheet(rows, module_name, assignment_name) ==
    LET df == read_table(rows)
        lowered == SetColumn(df, "Login",
                       [k \in 1..Len(df) |-> marks_login(df[k]["Login"])])
    IN  SetColumn(lowered, "feedback_filename",
            [k \in 1..Len(df) |->
                Cat(module_name \o Dash \o assignment_name \o Dash,
                    lowered[k]["Login"])])

\* load_dataframe: the extension of the file name, lower-cased, selects the
\* reader; any other extension raises ValueError
load_dataframe_reads(file_extension) ==
    str_lower(file_extension) \in {Csv, Xls, Xlsx}

load_marking ==
    /\ pc = "cleaned"
    /\ IF ~load_dataframe_reads(config.marking_ext)
       THEN /\ Raise("ValueError")
            /\ UNCHANGED df_marking
       ELSE IF HasStr(Column(marking_file, "Login"))
       THEN /\ df_marking' = load_marking_sheet(marking_file,
                                 config.module_name, config.assigment_name)
            /\ pc' = IF config.prepare_moodle_files = 0 THEN "gen_start"
                     ELSE "loaded"
            /\ UNCHANGED error
       ELSE /\ Raise("AttributeError")
            /\ UNCHANGED df_marking
    /\ UNCHANGED <<config, marking_file, reference_file, df_reference,
                   folder, moodle, row_range, index, generated_count, saved,
                   log, arg, res>>

\* load_reference_worksheet / load_moodle_worksheet
load_reference_worksheet(rows) ==
    LET df == read_table(rows)
    IN  SetColumn(df, "Login",
            [k \in 1..Len(df) |-> reference_login(df[k]["Email address"])])

load_reference ==
    /\ pc = "loaded"
    /\ Moodle
    /\ df_reference' = load_reference_worksheet(reference_file)
    /\ pc' = "ref_loaded"
    /\ UNCHANGED <<config, marking_file, reference_file, df_marking, folder,
                   moodle, row_range, index, generated_count, saved, log,
                   error, arg, res>>

\* the students of the marks table that the reference table lacks
missing_students(df_ref, df_marks) ==
    Filter(df_marks,
        [k \in 1..Len(df_marks) |->
            ~isin(df_marks[k]["Login"], Column(df_ref, "Login"))])

\* a faulty variant: the rows to keep are tested against the wrong table
validate_reference_worksheet_self(df_ref, df_marks, module_name, assignment_name) ==
    LET kept == Filter(df_ref,
                    [k \in 1..Len(df_ref) |->
                        isin(df_ref[k]["Login"], Column(df_ref, "Login"))])
        ids == SetColumn(kept, "Submission_ID",
                    [k \in 1..Len(kept) |->
                        submission_id(kept[k]["Identifier"])])
    IN  SetColumn(ids, "feedback_filename",
            [k \in 1..Len(ids) |->
                Cat(Cat(Cat(Cat(ids[k]["Full name"], Underscore),
                            ids[k]["Submission_ID"]),
                        sub_str(module_name, assignment_name)),
                    ids[k]["Login"])])

\* validate_reference_worksheet / validate_moodle_worksheet: the table it
\* returns
validate_reference_worksheet(df_ref, df_marks, module_name, assignment_name) ==
    LET kept == Filter(df_ref,
                    [k \in 1..Len(df_ref) |->
                        isin(df_ref[k]["Login"], Column(df_marks, "Login"))])
        ids == SetColumn(kept, "Submission_ID",
                    [k \in 1..Len(kept) |->
                        submission_id(kept[k]["Identifier"])])
    IN  SetColumn(ids, "feedback_filename",
            [k \in 1..Len(ids) |->
                Cat(Cat(Cat(Cat(ids[k]["Full name"], Underscore),
                            ids[k]["Submission_ID"]),
                        sub_str(module_name, assignment_name)),
                    ids[k]["Login"])])

validate_reference ==
    /\ pc = "ref_loaded"
    /\ df_reference' = validate_reference_worksheet(df_reference, df_marking,
                           config.module_name, config.assigment_name)
    /\ log' = IF missing_students(df_reference, df_marking) # <<>>
              THEN Append(log,
                     [ev |-> "missing",
                      what |-> Column(missing_students(df_reference,
                                                       df_marking), "Login")])
              ELSE log
    /\ pc' = "validated"
    /\ UNCHANGED <<config, marking_file, reference_file, df_marking, folder,
                   moodle, row_range, index, generated_count, saved, error,
                   arg, res>>

\* main line 255:
\* df_marking["feedback_filename"] =
\*     df_marking["Login"].map(df_reference.set_index("Login")["feedback_filename"])
join_feedback_filename ==
    /\ pc = "validated"
    /\ IF IsUnique(Column(df_reference, "Login"))
       THEN /\ df_marking' = SetColumn(df_marking, "feedback_filename",
                  [k \in 1..Len(df_marking) |->
                      Lookup(df_reference, "Login", "feedback_filename",
                             df_marking[k]["Login"])])
            /\ pc' = "joined"
            /\ UNCHANGED error
       ELSE /\ Raise("InvalidIndexError")
            /\ UNCHANGED df_marking
    /\ UNCHANGED <<config, marking_file, reference_file, df_reference,
                   folder, moodle, row_range, index, generated_count, saved,
                   log, arg, res>>

\* update_reference_file / update_moodle_file, for unique marks Logins: the
\* table it leaves in df_reference
update_reference_file(df_marks, df_ref, marking_workflow_state) ==
    LET state == SetColumn(df_ref, "Marking workflow state",
                     [k \in 1..Len(df_ref) |-> marking_workflow_state])
        grade == SetColumn(state, "Grade",
                     [k \in 1..Len(df_ref) |->
                         Lookup(df_marks, "Login", "Grade",
                                df_ref[k]["Login"])])
    IN  DropColumns(grade, {"Login", "Submission_ID", "feedback_filename"})

\* DataFrame.to_csv(output_file, index=False)
to_csv(df) == DropColumns(df, {"_index"})

update_reference ==
    /\ pc = "joined"
    /\ IF IsUnique(Column(df_marking, "Login"))
       THEN /\ df_reference' = update_reference_file(df_marking, df_reference,
                                   config.marking_workflow_state)
            /\ moodle' = [moodle EXCEPT !.export = to_csv(df_reference'),
                                        !.exported = TRUE]
            /\ pc' = "gen_start"
            /\ UNCHANGED error
       ELSE /\ Raise("InvalidIndexError")
            /\ UNCHANGED <<df_reference, moodle>>
    /\ UNCHANGED <<config, marking_file, reference_file, df_marking, folder,
                   row_range, index, generated_count, saved, log, arg, res>>

\* reports_generater.py main: df = pd.read_excel(master_file, ...)
sheets_load ==
    /\ pc = "start"
    /\ Sheets
    /\ df_marking' = read_table(marking_file)
    /\ pc' = "gen_start"
    /\ UNCHANGED <<config, marking_file, reference_file, df_reference,
                   folder, moodle, row_range, index, generated_count, saved,
                   log, error, arg, res>>

\* Moodle_Batch_Upload.py main line 81: load_data
batch_load_data ==
    /\ pc = "start"
    /\ Batch
    /\ df_marking' = read_table(marking_file)
    /\ df_reference' = read_table(reference_file)
    /\ pc' = "loaded"
    /\ UNCHANGED <<config, marking_file, reference_file, folder, moodle,
                   row_range, index, generated_count, saved, log, error,
                   arg, res>>

\* Moodle_Batch_Upload.py preprocess_data: both Login columns are
\* normalized in place and the missing students printed; the filtered copy
\* is a local of the call, and building submission_file_name (lines 47-49)
\* reads the names module_name and assignment_name, which the file never
\* binds: NameError on every call, so nothing is returned
batch_preprocess_data ==
    /\ pc = "loaded"
    /\ Batch
    /\ IF HasStr(Column(df_marking, "Login"))
       THEN /\ df_marking' = SetColumn(df_marking, "Login",
                  [k \in 1..Len(df_marking) |->
                      marks_login(df_marking[k]["Login"])])
            /\ df_reference' = SetColumn(df_reference, "Login",
                  [k \in 1..Len(df_reference) |->
                      reference_login(df_reference[k]["Email address"])])
            /\ log' = IF missing_students(df_reference', df_marking') # <<>>
                      THEN Append(log,
                             [ev |-> "missing",
                              what |-> Column(missing_students(df_reference',
                                                  df_marking'), "Login")])
                      ELSE log
            /\ Raise("NameError")
       ELSE /\ Raise("AttributeError")
            /\ UNCHANGED <<df_marking, df_reference, log>>
    /\ UNCHANGED <<config, marking_file, reference_file, folder, moodle,
                   row_range, index, generated_count, saved, arg, res>>

----------------------------------------------------------------------------
(* generate_reports / do_generate_reports.                                 *)

\* generate_reports up to its loop
gen_start ==
    /\ pc = "gen_start"
    /\ folder' = makedirs(folder)
    /\ row_range' = validate_row_limits(config.start_row, config.end_row,
                                        Len(df_marking))
    /\ generated_count' = 0
    /\ index' = 0
    /\ pc' = "gen"
    /\ UNCHANGED <<config, marking_file, reference_file, df_marking,
                   df_reference, moodle, saved, log, error, arg, res>>

\* the positions of df.iloc[start_idx:end_idx], and the row now iterated
Slice == iloc(Len(df_marking), row_range)
Current == row_range[1] + 1 + index

\* a faulty variant: no row is ever skipped
SkipRow_never(row) == FALSE

\* pd.isna(student_key) or not student_key
SkipRow(row) ==
    IsNa(row_get(row, config.key_column))
        \/ row_get(row, config.key_column) = <<>>

\* student_key missing: print "Skipping row ..." and continue
gen_skip ==
    /\ pc = "gen"
    /\ index < Cardinality(Slice)
    /\ SkipRow(df_marking[Current])
    /\ log' = Append(log, [ev |-> "skip",
                           what |-> df_marking[Current]["_index"] + 1])
    /\ index' = index + 1
    /\ UNCHANGED <<pc, config, marking_file, reference_file, df_marking,
                   df_reference, folder, moodle, row_range, generated_count,
                   saved, error, arg, res>>

\* one row of Reports_Generator.generate_reports / do_generate_reports
gen_report ==
    /\ pc = "gen"
    /\ Moodle
    /\ index < Cardinality(Slice)
    /\ ~SkipRow(df_marking[Current])
    /\ LET row == df_marking[Current]
           feedback_filename == row_get(row, "feedback_filename")
           output_filename == feedback_filename \o config.ext
       IN  IF IsNa(feedback_filename)
           THEN \* feedback_filename + ext with a float nan
                /\ Raise("TypeError")
                /\ UNCHANGED <<folder, saved, log, generated_count, index>>
           ELSE /\ CASE config.ext = Docx ->
                         /\ folder' = [folder EXCEPT !.entries =
                               Put(@, output_filename,
                                   File(write_to_word_file(config.mapping, row)))]
                         /\ saved' = Append(saved, output_filename)
                         /\ log' = Append(log, [ev |-> "saved",
                                                what |-> output_filename])
                     [] config.ext = Xlsx ->
                         /\ folder' = [folder EXCEPT !.entries =
                               Put(@, output_filename,
                                   File(write_to_excel_file(config.mapping, row)))]
                         /\ saved' = Append(saved, output_filename)
                         /\ log' = Append(log, [ev |-> "saved",
                                                what |-> output_filename])
                     [] OTHER ->
                         /\ log' = log
                                \o <<[ev |-> "unsupported", what |-> config.ext],
                                     [ev |-> "saved", what |-> output_filename]>>
                         /\ UNCHANGED <<folder, saved>>
                /\ generated_count' = generated_count + 1
                /\ index' = index + 1
                /\ UNCHANGED <<pc, error>>
    /\ UNCHANGED <<config, marking_file, reference_file, df_marking,
                   df_reference, moodle, row_range, arg, res>>

\* one row of reports_generater.py's generate_reports
gen_sheet ==
    /\ pc = "gen"
    /\ Sheets
    /\ index < Cardinality(Slice)
    /\ ~SkipRow(df_marking[Current])
    /\ LET row == df_marking[Current]
           output_filename ==
               config.assigment_name \o <<" ", "-", " ">>
                   \o row_get(row, config.key_column) \o Xlsx
       IN  /\ folder' = [folder EXCEPT !.entries =
                 Put(@, output_filename, File(write_sheet(config.mapping, row)))]
           /\ saved' = Append(saved, output_filename)
           /\ log' = Append(log, [ev |-> "saved", what |-> output_filename])
    /\ generated_count' = generated_count + 1
    /\ index' = index + 1
    /\ UNCHANGED <<pc, config, marking_file, reference_file, df_marking,
                   df_reference, moodle, row_range, error, arg, res>>

\* after the loop: print the total
gen_end ==
    /\ pc = "gen"
    /\ index = Cardinality(Slice)
    /\ log' = Append(log, [ev |-> "total", what |-> generated_count])
    /\ pc' = IF Moodle /\ config.prepare_moodle_files # 0 THEN "generated"
             ELSE "done"
    /\ UNCHANGED <<config, marking_file, reference_file, df_marking,
                   df_reference, folder, moodle, row_range, index,
                   generated_count, saved, error, arg, res>>

\* main lines 260-262: zip_output_files(output_folder, zip_filepath)
zip_reports ==
    /\ pc = "generated"
    /\ moodle' = [moodle EXCEPT !.archive = zip_entries(folder),
                                !.archived = TRUE]
    /\ pc' = "zipped"
    /\ UNCHANGED <<config, marking_file, reference_file, df_marking,
                   df_reference, folder, row_range, index, generated_count,
                   saved, log, error, arg, res>>

\* main line 264: clean_output_folder(output_folder)
clean_last ==
    /\ pc = "zipped"
    /\ folder' = clean_output_folder(folder)
    /\ pc' = "done"
    /\ UNCHANGED <<config, marking_file, reference_file, df_marking,
                   df_reference, moodle, row_range, index, generated_count,
                   saved, log, error, arg, res>>

Next ==
    \/ clean_first
    \/ load_marking
    \/ load_reference
    \/ validate_reference
    \/ join_feedback_filename
    \/ update_reference
    \/ sheets_load
    \/ batch_load_data
    \/ batch_preprocess_data
    \/ gen_start
    \/ gen_skip
    \/ gen_report
    \/ gen_sheet
    \/ gen_end
    \/ zip_reports
    \/ clean_last

Spec == Init /\ [][Next]_vars

----------------------------------------------------------------------------
(* Moodle_Batch_Upload.py's functions called in main's order by a caller   *)
(* that has bound the two names preprocess_data reads, module_name and     *)
(* assignment_name.  (Run as a script the file binds neither, see          *)
(* batch_preprocess_data.)                                                 *)

\* "_assignsubmission_file_" + module_name + "_" + assignment_name + "_Feedback"
batch_sub_str(module_name, assignment_name) ==
    <<"_", "a", "s", "s", "i", "g", "n", "s", "u", "b", "m", "i", "s", "s",
      "i", "o", "n", "_", "f", "i", "l", "e", "_">>
    \o module_name \o Underscore \o assignment_name
    \o <<"_", "F", "e", "e", "d", "b", "a", "c", "k">>

\* preprocess_data: the pair (df_master, df_reference) it returns;
\* module_name and assignment_name are free names of the function
preprocess_data(df_master, df_ref, module_name, assignment_name) ==
    LET master == SetColumn(df_master, "Login",
                      [k \in 1..Len(df_master) |->
                          marks_login(df_master[k]["Login"])])
        logins == SetColumn(df_ref, "Login",
                      [k \in 1..Len(df_ref) |->
                          reference_login(df_ref[k]["Email address"])])
        kept == Filter(logins,
                    [k \in 1..Len(logins) |->
                        isin(logins[k]["Login"], Column(master, "Login"))])
        ids == SetColumn(kept, "Submission_ID",
                    [k \in 1..Len(kept) |->
                        submission_id(kept[k]["Identifier"])])
    IN  <<master,
          SetColumn(ids, "submission_file_name",
              [k \in 1..Len(ids) |->
                  Cat(Cat(Cat(ids[k]["Full name"], Underscore),
                          ids[k]["Submission_ID"]),
                      batch_sub_str(module_name, assignment_name))])>>

\* Moodle_Batch_Upload.py update_reference_file, for unique master Logins:
\* the table it leaves in df_reference
batch_update_reference_file(df_master, df_ref) ==
    LET state == SetColumn(df_ref, "Marking workflow state",
                     [k \in 1..Len(df_ref) |-> Released])
        grade == SetColumn(state, "Grade",
                     [k \in 1..Len(df_ref) |->
                         Lookup(df_master, "Login", "Grade",
                                df_ref[k]["Login"])])
    IN  DropColumns(grade, {"Login", "Submission_ID"})

\* DataFrame.to_excel(output_file, index=False)
to_excel(df) == DropColumns(df, {"_index"})

InitBatchCalled ==
    /\ pc = "batch_start"
    /\ config = Config("batch", 1, "Login", <<Int_(1), None>>, Xlsx)
    /\ marking_file \in Seqs(MarkRows, MaxRows)
    /\ reference_file \in Seqs(ReferenceRows, MaxRefRows)
    /\ folder = NoFolder
    /\ df_marking = <<>>
    /\ df_reference = <<>>
    /\ moodle = NoMoodle
    /\ row_range = <<0, None>>
    /\ index = 0
    /\ generated_count = 0
    /\ saved = <<>>
    /\ log = <<>>
    /\ error = NoError
    /\ arg = <<>>
    /\ res = <<>>

call_load_data ==
    /\ pc = "batch_start"
    /\ df_marking' = read_table(marking_file)
    /\ df_reference' = read_table(reference_file)
    /\ pc' = "batch_loaded"
    /\ UNCHANGED <<config, marking_file, reference_file, folder, moodle,
                   row_range, index, generated_count, saved, log, error,
                   arg, res>>

call_preprocess_data ==
    /\ pc = "batch_loaded"
    /\ IF HasStr(Column(df_marking, "Login"))
       THEN /\ df_marking' = preprocess_data(df_marking, df_reference,
                                 config.module_name, config.assigment_name)[1]
            /\ df_reference' = preprocess_data(df_marking, df_reference,
                                 config.module_name, config.assigment_name)[2]
            /\ log' = IF missing_students(df_reference', df_marking') # <<>>
                      THEN Append(log,
                             [ev |-> "missing",
                              what |-> Column(missing_students(df_reference',
                                                  df_marking'), "Login")])
                      ELSE log
            /\ pc' = "batch_preprocessed"
            /\ UNCHANGED error
       ELSE /\ Raise("AttributeError")
            /\ UNCHANGED <<df_marking, df_reference, log>>
    /\ UNCHANGED <<config, marking_file, reference_file, folder, moodle,
                   row_range, index, generated_count, saved, arg, res>>

call_update_reference_file ==
    /\ pc = "batch_preprocessed"
    /\ IF IsUnique(Column(df_marking, "Login"))
       THEN /\ df_reference' = batch_update_reference_file(df_marking,
                                                           df_reference)
            /\ moodle' = [moodle EXCEPT !.export = to_excel(df_reference'),
                                        !.exported = TRUE]
            /\ pc' = "batch_done"
            /\ UNCHANGED error
       ELSE /\ Raise("InvalidIndexError")
            /\ UNCHANGED <<df_reference, moodle>>
    /\ UNCHANGED <<config, marking_file, reference_file, df_marking, folder,
                   row_range, index, generated_count, saved, log, arg, res>>

NextBatchCalled ==
    \/ call_load_data
    \/ call_preprocess_data
    \/ call_update_reference_file

SpecBatchCalled == InitBatchCalled /\ [][NextBatchCalled]_vars

----------------------------------------------------------------------------
(* Runs on clean input: the whole table is selected (start_row 1, no       *)
(* end_row) and no two marks rows share a Login (after lower-casing) or an *)
(* ID.                                                                     *)

InitCleanInput ==
    /\ Init
    /\ config.start_row = Int_(1)
    /\ config.end_row = None
    /\ IsUnique([k \in 1..Len(marking_file) |->
                    marks_login(marking_file[k]["Login"])])
    /\ IsUnique(Column(marking_file, "ID"))

SpecCleanInput == InitCleanInput /\ [][Next]_vars

----------------------------------------------------------------------------
(* Properties of a run.                                                    *)

\* the key column of a row is absent or empty
KeyEmpty(row) ==
    \/ config.key_column \notin DOMAIN row
    \/ row[config.key_column] = NaN
    \/ row[config.key_column] = <<>>

\* the output name derived for a row, NaN when the row has none
DerivedName(row) ==
    IF Sheets
    THEN config.assigment_name \o <<" ", "-", " ">> \o row[config.key_column]
             \o Xlsx
    ELSE Cat(row_get(row, "feedback_filename"), config.ext)

\* report generation has ended, by reaching its total or by an error
GenerationOver ==
    \/ pc \in {"generated", "zipped", "done"}
    \/ pc = "crashed" /\ error.at = "gen"

Keyed == {k \in 1..Len(df_marking) : ~KeyEmpty(df_marking[k])}

\* C1: once report generation is over, every marks row with a non-empty
\* key column has a document saved under its own derived feedback filename,
\* and there are as many documents as such rows.
C1_OneDocumentPerKeyedRow ==
    GenerationOver =>
        /\ \A k \in Keyed :
              \E j \in 1..Len(saved) : saved[j] = DerivedName(df_marking[k])
        /\ Cardinality(Range(saved)) = Cardinality(Keyed)

\* C2: the table reconciliation returns holds exactly the rows of the
\* input reference table whose normalized Login is among the marks Logins:
\* every returned row is an input row (same label, same values) that
\* matches, every matching input row is returned, and none twice.
C2_ReconciledExactlyMatching ==
    pc = "validated" =>
        LET n == Len(reference_file)
            marks == Range(Column(df_marking, "Login"))
            Matches(k) ==
                reference_login(reference_file[k]["Email address"]) \in marks
        IN  /\ \A j \in 1..Len(df_reference) :
                 LET l == df_reference[j]["_index"]
                 IN  /\ l \in 0..(n - 1)
                     /\ Matches(l + 1)
                     /\ \A c \in DOMAIN reference_file[l + 1] :
                           df_reference[j][c] = reference_file[l + 1][c]
            /\ \A k \in 1..n :
                 Matches(k) =>
                     \E j \in 1..Len(df_reference) :
                         df_reference[j]["_index"] = k - 1
            /\ IsUnique(Column(df_reference, "_index"))

\* reconciliation kept a row and dropped a row
C2_Witness ==
    /\ pc = "validated"
    /\ Len(df_reference) >= 1
    /\ Len(df_reference) < Len(reference_file)

\* C5: the entries of the archive are exactly the files of the output
\* folder at archive time, under their flat names: nothing else, nothing
\* missing, no entry for a subdirectory.
C5_ArchiveIsExactlyTheFiles ==
    pc = "zipped" =>
        {e.name : e \in moodle.archive}
            = {n \in DOMAIN folder.entries : ~folder.entries[n].dir}

WorkingColumns ==
    {"Login", "Submission_ID", "feedback_filename", "submission_file_name"}

MismatchLogged == \E k \in 1..Len(log) : log[k].ev = "missing"

\* C7: a reconciliation mismatch is not fatal: after missing students were
\* reported, no unmatched row makes the run raise an error.
C7_MismatchIsNotFatal ==
    MismatchLogged => ~(pc = "crashed" /\ error.type = "TypeError")

\* C8: a row of the range whose key column is empty or absent is skipped:
\* the step that meets it writes no document, raises no error, leaves the
\* count as it is and moves on to the next row.
C8_EmptyKeyRowSkipped ==
    [][(pc = "gen" /\ index < Cardinality(Slice)
            /\ KeyEmpty(df_marking[Current]))
        => /\ folder' = folder
           /\ saved' = saved
           /\ generated_count' = generated_count
           /\ error' = error
           /\ pc' = "gen"
           /\ index' = index + 1]_vars

\* a run that skipped a row and saved a document for a later row is done
C8_Witness ==
    /\ pc = "done"
    /\ \E a, b \in 1..Len(log) :
          a < b /\ log[a].ev = "skip" /\ log[b].ev = "saved"
    /\ Len(saved) >= 1

\* C9: the total printed at the end of report generation is the number of
\* documents saved in the run.
C9_TotalEqualsSaved ==
    \A k \in 1..Len(log) : log[k].ev = "total" => log[k].what = Len(saved)

\* C11: an unrecognized extension is fatal for the load: a marks table
\* whose extension is not .csv/.xls/.xlsx is never loaded, the load raising
\* an error; with a template that is neither .xlsx nor .docx no report is
\* counted or announced as saved.
C11_UnsupportedFormatIsFatal ==
    /\ (Moodle /\ ~load_dataframe_reads(config.marking_ext)
            /\ pc \notin {"start", "cleaned"})
        => (pc = "crashed" /\ error.type = "ValueError" /\ df_marking = <<>>)
    /\ (Moodle /\ config.ext \notin {Xlsx, Docx})
        => /\ generated_count = 0
           /\ \A k \in 1..Len(log) : log[k].ev # "saved"

\* C10: after the first cleaning no file with the template's extension
\* (.xlsx or .docx) is left in the output folder, and every such entry of
\* the archive is a document saved in this run.
C10_NoStaleDocuments ==
    config.ext \in {Xlsx, Docx} =>
        /\ pc = "cleaned" =>
              \A n \in DOMAIN folder.entries : ~EndsWith(n, config.ext)
        /\ pc = "zipped" =>
              \A e \in moodle.archive :
                  EndsWith(e.name, config.ext) => e.name \in Range(saved)

\* the template a run fills, and the cell a reference names in it
RunTemplate == IF config.ext = Docx THEN TemplateDocx ELSE TemplateXlsx

CellOf(ref) ==
    IF config.ext = Docx THEN excel_ref_to_index(ref) ELSE cell_coordinate(ref)

MappedCells == {CellOf(config.mapping[k][2]) : k \in 1..Len(config.mapping)}

\* the document the step has just saved, and the row it was saved for
SavedStep == pc = "gen" /\ Len(saved') = Len(saved) + 1

NewDocument == folder'.entries[saved'[Len(saved')]].content

\* C12: outputs are independent: the document a step saves has the
\* template's cells wherever the mapping names none, and in a mapped cell
\* only a value of the row it is saved for (or a placeholder), never one
\* written for another row.
C12_OutputsIndependent ==
    [][SavedStep =>
        LET row == df_marking[Current]
        IN  /\ DOMAIN NewDocument = DOMAIN RunTemplate \cup MappedCells
            /\ \A c \in DOMAIN RunTemplate \ MappedCells :
                  NewDocument[c] = RunTemplate[c]
            /\ \A c \in MappedCells :
                  NewDocument[c] \in {row[x] : x \in DOMAIN row \ {"_index"}}
                                       \cup {<<>>, NA}]_vars

\* two rows of one run have been saved as two documents that differ
C12_Witness ==
    /\ Len(saved) = 2
    /\ saved[1] # saved[2]
    /\ {saved[1], saved[2]} \subseteq DOMAIN folder.entries
    /\ folder.entries[saved[1]].content # folder.entries[saved[2]].content
    /\ \E c \in DOMAIN RunTemplate \ MappedCells :
          folder.entries[saved[2]].content[c] = <<"T">>

\* the row has no value for the column: absent, NaN or empty
MissingValue(row, column) ==
    \/ column \notin DOMAIN row
    \/ row[column] = NaN
    \/ row[column] = <<>>

\* the step handles a row that has a key, under a template that is written
ProcessedStep ==
    /\ pc = "gen"
    /\ index < Cardinality(Slice)
    /\ ~KeyEmpty(df_marking[Current])
    /\ config.ext \in {Xlsx, Docx}

\* C13: for every processed row the document saved holds, at the target of
\* every pair of the mapping, the row's value for the source column, or the
\* placeholder when the row has no value for it; the same placeholder
\* ("N/A" or the empty string) at every such target; and a missing value
\* does not abort the row.
C13_ValueOrOnePlaceholder ==
    [][ProcessedStep =>
        IF SavedStep /\ error' = error
        THEN LET row == df_marking[Current]
             IN  \E placeholder \in {NA, <<>>} :
                   \A k \in 1..Len(config.mapping) :
                      NewDocument[CellOf(config.mapping[k][2])]
                          = IF MissingValue(row, config.mapping[k][1])
                            THEN placeholder
                            ELSE row[config.mapping[k][1]]
        ELSE \A k \in 1..Len(config.mapping) :
                ~MissingValue(df_marking[Current], config.mapping[k][1])]_vars

\* '<Full name>_<Submission_ID>_assignsubmission_file_<module>_<assignment>
\* _Feedback - <Login>' for a row of the reference export
ExpectedFeedbackFilename(ref_row) ==
    ref_row["Full name"] \o <<"_">> \o submission_id(ref_row["Identifier"])
        \o <<"_", "a", "s", "s", "i", "g", "n", "s", "u", "b", "m", "i",
              "s", "s", "i", "o", "n", "_", "f", "i", "l", "e", "_">>
        \o config.module_name \o <<"_">> \o config.assigment_name
        \o <<"_", "F", "e", "e", "d", "b", "a", "c", "k", " ", "-", " ">>
        \o reference_login(ref_row["Email address"])

\* reports are being emitted in a prepare-moodle run
Emitting == Moodle /\ config.prepare_moodle_files = 1 /\ pc = "gen"

\* C15: while a prepare-moodle run emits reports, every marks row carries
\* the feedback filename of the reference row with the same Login, in the
\* format above, and every document saved is named by the feedback filename
\* of a marks row plus the template extension.
C15_FeedbackFilenameJoined ==
    Emitting =>
        /\ \A k \in 1..Len(df_marking) :
              \E j \in 1..Len(reference_file) :
                 /\ reference_login(reference_file[j]["Email address"])
                        = df_marking[k]["Login"]
                 /\ df_marking[k]["feedback_filename"]
                        = ExpectedFeedbackFilename(reference_file[j])
        /\ \A n \in 1..Len(saved) :
              \E k \in 1..Len(df_marking) :
                 saved[n] = df_marking[k]["feedback_filename"] \o config.ext

\* a prepare-moodle run of main / generating_reports
PrepareRun == Moodle /\ config.prepare_moodle_files = 1

\* C18: a prepare-moodle run cleans the output folder, reconciles, writes
\* the updated reference export, emits the reports, archives and cleans
\* again, in this order: the folder is clean while the tables are
\* reconciled; the export exists from the end of reconciliation on, so
\* before any report is saved and also when emission aborts; the archive
\* exists only once emission has printed its total; and after a successful
\* run with an .xlsx template every document saved is an entry of the
\* archive and none is left in the output folder.
C18_PrepareRunOrder ==
    PrepareRun =>
        /\ pc \in {"cleaned", "loaded", "ref_loaded", "validated", "joined"}
              => /\ \A n \in DOMAIN folder.entries : ~EndsWith(n, Xlsx)
                 /\ ~moodle.exported /\ saved = <<>>
        /\ pc \in {"gen_start", "gen", "generated", "zipped", "done"}
              => moodle.exported
        /\ saved # <<>> => moodle.exported
        /\ (pc = "crashed" /\ error.at = "gen") => moodle.exported
        /\ moodle.archived <=> pc \in {"zipped", "done"}
        /\ moodle.archived
              => \E k \in 1..Len(log) : log[k].ev = "total"
        /\ (pc = "done" /\ config.ext = Xlsx)
              => \A n \in 1..Len(saved) :
                    /\ saved[n] \in {e.name : e \in moodle.archive}
                    /\ saved[n] \notin DOMAIN folder.entries

\* a prepare-moodle run with an .xlsx template has ended with two documents
C18_Witness ==
    /\ PrepareRun
    /\ pc = "done"
    /\ config.ext = Xlsx
    /\ Len(saved) = 2
    /\ moodle.archived

----------------------------------------------------------------------------
(* Login normalization on its own: the two loaders' normalization applied  *)
(* to x, to its own result, and to a string y that differs from x only in  *)
(* letter case.                                                            *)

Locals == Seqs({"a", "A", "b"}, MaxLocal) \ {<<>>}
Domains ==
    { <<>>,
      KentSuffix,
      <<"@", "K", "E", "N", "T", ".", "A", "C", ".", "U", "K">>,
      <<"@", "K", "e", "n", "t", ".", "a", "c", ".", "u", "k">>,
      <<"@", "k", "e", "n", "t", ".", "a", "c">> \o KentSuffix
          \o <<".", "u", "k">> }
Addresses == {l \o d : l \in Locals, d \in Domains}

\* the addresses that differ from x in letter case only
CaseVariants(x) ==
    {z \in Addresses :
        Len(z) = Len(x) /\ \A k \in 1..Len(x) : LowerChar(z[k]) = LowerChar(x[k])}

InitNorm ==
    /\ Idle
    /\ pc = "norm_call"
    /\ arg \in UNION {{[role |-> r, x |-> x, y |-> y] :
                          r \in {"marks", "reference"},
                          y \in CaseVariants(x)} : x \in Addresses}
    /\ res = <<>>

\* load_marking_sheet's normalization
norm_marks ==
    /\ pc = "norm_call"
    /\ arg.role = "marks"
    /\ res' = [once |-> marks_login(arg.x),
               twice |-> marks_login(marks_login(arg.x)),
               other |-> marks_login(arg.y)]
    /\ pc' = "norm_ret"
    /\ UNCHANGED arg
    /\ IdleUnchanged

\* load_reference_worksheet's / load_moodle_worksheet's normalization
norm_reference ==
    /\ pc = "norm_call"
    /\ arg.role = "reference"
    /\ res' = [once |-> reference_login(arg.x),
               twice |-> reference_login(reference_login(arg.x)),
               other |-> reference_login(arg.y)]
    /\ pc' = "norm_ret"
    /\ UNCHANGED arg
    /\ IdleUnchanged

NextNorm == norm_marks \/ norm_reference

SpecNorm == InitNorm /\ [][NextNorm]_vars

\* C3: Login normalization is idempotent and case-insensitive for both
\* table roles: normalizing a normalized value changes nothing, and two
\* inputs that differ only in letter case normalize to the same Login.
C3_NormalizationIdempotentCaseInsensitive ==
    pc = "norm_ret" => (res.twice = res.once /\ res.other = res.once)

----------------------------------------------------------------------------
(* validate_row_limits on its own.                                         *)

RowValues == {NotInt} \cup {Int_(n) : n \in -1..(MaxTotal + 2)}

InitLimits ==
    /\ Idle
    /\ pc = "limits_call"
    /\ arg \in [start_row : RowValues,
                end_row : RowValues \cup {None},
                total_rows : 0..MaxTotal]
    /\ res = <<>>

call_validate_row_limits ==
    /\ pc = "limits_call"
    /\ res' = validate_row_limits(arg.start_row, arg.end_row, arg.total_rows)
    /\ pc' = "limits_ret"
    /\ UNCHANGED arg
    /\ IdleUnchanged

NextLimits == call_validate_row_limits

SpecLimits == InitLimits /\ [][NextLimits]_vars

\* the start the configuration asks for is usable as it stands
StartOk(a) ==
    IsInt(a.start_row) /\ a.start_row.v >= 1 /\ a.start_row.v <= a.total_rows

\* the 1-based start the function settles on
EffectiveStart == res[1] + 1

\* C4 as stated: a start that is not an int, < 1 or > total becomes 1; an
\* absent end stays absent (through the last row); an end that is not an
\* int or is smaller than the CONFIGURED start becomes the table length.
C4_ClampingAgainstConfiguredStart ==
    pc = "limits_ret" =>
        /\ (~StartOk(arg) => EffectiveStart = 1)
        /\ (arg.end_row = None => res[2] = None)
        /\ (arg.end_row # None /\
            (~IsInt(arg.end_row) \/
             (IsInt(arg.start_row) /\ arg.end_row.v < arg.start_row.v))
              => res[2] = Int_(arg.total_rows))

\* C4, amended: the start rule and the absent end as stated; an end that is
\* not an int or is smaller than the EFFECTIVE start (the configured start,
\* or 1 when that was reset) becomes the table length, and any other end is
\* cut to the table length.  start=0,end=None on 10 rows selects rows 1-10;
\* start=5,end=3 on 10 rows gives end 10.
C4_ClampingAgainstEffectiveStart ==
    pc = "limits_ret" =>
        /\ (StartOk(arg) => EffectiveStart = arg.start_row.v)
        /\ (~StartOk(arg) => EffectiveStart = 1)
        /\ (arg.end_row = None => res[2] = None)
        /\ (arg.end_row # None /\
            (~IsInt(arg.end_row) \/ arg.end_row.v < EffectiveStart)
              => res[2] = Int_(arg.total_rows))
        /\ (IsInt(arg.end_row) /\ arg.end_row.v >= EffectiveStart
              => res[2] = Int_(Min(arg.end_row.v, arg.total_rows)))
        /\ (arg = [start_row |-> Int_(0), end_row |-> None, total_rows |-> 10]
              => iloc(10, res) = 1..10)
        /\ (arg = [start_row |-> Int_(5), end_row |-> Int_(3),
                   total_rows |-> 10]
              => res = <<4, Int_(10)>>)

\* start=5, end=3 on a 10-row table has been clamped
C4_Witness ==
    /\ pc = "limits_ret"
    /\ arg = [start_row |-> Int_(5), end_row |-> Int_(3), total_rows |-> 10]
    /\ res = <<4, Int_(10)>>

\* C17: for a table of at least one row the pair validate_row_limits
\* returns satisfies 0 <= start_idx < total and end_idx is None or
\* start_idx < end_idx <= total, so the slice is not empty and stays inside
\* the table; for an empty table the slice is empty.
C17_SliceInsideTable ==
    pc = "limits_ret" =>
        IF arg.total_rows >= 1
        THEN /\ 0 <= res[1] /\ res[1] < arg.total_rows
             /\ \/ res[2] = None
                \/ /\ IsInt(res[2])
                   /\ res[1] < res[2].v
                   /\ res[2].v <= arg.total_rows
             /\ iloc(arg.total_rows, res) # {}
             /\ iloc(arg.total_rows, res) \subseteq 1..arg.total_rows
        ELSE iloc(arg.total_rows, res) = {}

\* a start beyond a 3-row table with an end below it has been settled
C17_Witness ==
    /\ pc = "limits_ret"
    /\ arg = [start_row |-> Int_(5), end_row |-> Int_(0), total_rows |-> 3]
    /\ res = <<0, Int_(3)>>

----------------------------------------------------------------------------
(* excel_ref_to_index / excel_cell_ref_to_indices on its own.              *)

ColumnLetters == {"A", "C", "Z", "a", "b"}
RowNumbers == {<<"1">>, <<"4">>, <<"1", "0">>}

\* cell addresses: one or two column letters followed by a row number
CellAddresses ==
    {l \o n : l \in UNION {[1..m -> ColumnLetters] : m \in 1..MaxLetters},
              n \in RowNumbers}

InitRef ==
    /\ pc = "ref_call"
    /\ arg \in CellAddresses
    /\ res = <<>>
    /\ Idle

call_excel_ref_to_index ==
    /\ pc = "ref_call"
    /\ res' = IF excel_ref_to_index_raises(arg)
              THEN [raised |-> "ValueError", value |-> <<>>]
              ELSE [raised |-> "none", value |-> excel_ref_to_index(arg)]
    /\ pc' = "ref_ret"
    /\ UNCHANGED arg
    /\ IdleUnchanged

NextRef == call_excel_ref_to_index

SpecRef == InitRef /\ [][NextRef]_vars

\* C14: every cell address, multi-letter columns included, is converted to
\* the pair (row number - 1, zero-based index of the column), e.g.
\* A1 -> (0, 0), C4 -> (3, 2).
C14_AddressToZeroBasedPair ==
    pc = "ref_ret" =>
        LET letters == SubSeq(arg, 1, LetterPrefix(arg))
            number == SubSeq(arg, LetterPrefix(arg) + 1, Len(arg))
        IN  /\ res.raised = "none"
            /\ res.value = <<ToInt(number) - 1, ColumnNo(letters) - 1>>

----------------------------------------------------------------------------
(* marking_automation.py renaming_reports / rename_existing_reports.  The  *)
(* content of a directory entry maps the names in it to their entries.     *)

\* feedback_file_extension of the configuration (no dot)
RenameExt == <<"x", "l", "s", "x">>

\* f"{x}" for a string or a float nan
format(x) == IF IsNa(x) THEN <<"n", "a", "n">> ELSE x

\* `not x` for a string or a float nan: only the empty string is falsy
Falsy(x) == x = <<>>

\* f"{name}.{feedback_file_extension}"
report_name(name, feedback_file_extension) ==
    format(name) \o <<".">> \o feedback_file_extension

\* os.makedirs(reports_folder + '/renamed', exist_ok=True)
make_renamed(f) ==
    IF f.exists /\ Renamed \in DOMAIN f.entries THEN f
    ELSE [exists |-> TRUE, entries |-> Put(f.entries, Renamed, Dir)]

\* reports left in the folder by earlier work, named <Login>.<ext>
RenameFolders ==
    { [exists |-> TRUE,
       entries |-> (report_name(<<"a">>, RenameExt) :> File(OldContent))],
      [exists |-> TRUE,
       entries |-> (report_name(<<"a">>, RenameExt) :> File(OldContent))
                   @@ (report_name(<<"c">>, RenameExt)
                         :> File((<<1, 1>> :> <<"c">>)))],
      NoFolder }

InitRename ==
    /\ pc = "rename_start"
    /\ config \in {Config("rename", p, "Login", <<Int_(1), None>>, RenameExt) :
                      p \in {0, 1}}
    /\ marking_file \in Seqs(MarkRows, MaxRows)
    /\ reference_file \in Seqs(ReferenceRows, MaxRefRows)
    /\ folder \in RenameFolders
    /\ df_marking = <<>>
    /\ df_reference = <<>>
    /\ moodle = NoMoodle
    /\ row_range = <<0, None>>
    /\ index = 0
    /\ generated_count = 0
    /\ saved = <<>>
    /\ log = <<>>
    /\ error = NoError
    /\ arg = <<>>
    /\ res = <<>>

\* renaming_reports lines 254-283 up to the call of rename_existing_reports,
\* and rename_existing_reports up to its loop
rename_prepare ==
    /\ pc = "rename_start"
    /\ IF config.prepare_moodle_files = 0
       THEN /\ pc' = "done"
            /\ UNCHANGED <<df_marking, df_reference, moodle, folder, log,
                           error>>
       ELSE IF ~HasStr(Column(marking_file, "Login"))
       THEN /\ Raise("AttributeError")
            /\ UNCHANGED <<df_marking, df_reference, moodle, folder, log>>
       ELSE
         LET marks == load_marking_sheet(marking_file, config.module_name,
                                         config.assigment_name)
             loaded == load_reference_worksheet(reference_file)
             ref == validate_reference_worksheet(loaded, marks,
                        config.module_name, config.assigment_name)
             joined == SetColumn(marks, "feedback_filename",
                           [k \in 1..Len(marks) |->
                               Lookup(ref, "Login", "feedback_filename",
                                      marks[k]["Login"])])
         IN  /\ log' = IF missing_students(loaded, marks) # <<>>
                       THEN Append(log,
                              [ev |-> "missing",
                               what |-> Column(missing_students(loaded, marks),
                                               "Login")])
                       ELSE log
             /\ IF ~IsUnique(Column(ref, "Login"))
                THEN /\ Raise("InvalidIndexError")
                     /\ df_marking' = marks
                     /\ df_reference' = ref
                     /\ UNCHANGED <<moodle, folder>>
                ELSE IF ~IsUnique(Column(marks, "Login"))
                THEN /\ Raise("InvalidIndexError")
                     /\ df_marking' = joined
                     /\ df_reference' = ref
                     /\ UNCHANGED <<moodle, folder>>
                ELSE /\ df_marking' = joined
                     /\ df_reference' = update_reference_file(joined, ref,
                                            config.marking_workflow_state)
                     /\ moodle' = [moodle EXCEPT
                                      !.export = to_csv(df_reference'),
                                      !.exported = TRUE]
                     /\ folder' = make_renamed(folder)
                     /\ pc' = "rename"
                     /\ UNCHANGED error
    /\ UNCHANGED <<config, marking_file, reference_file, row_range, index,
                   generated_count, saved, arg, res>>

\* one row of rename_existing_reports
rename_row ==
    /\ pc = "rename"
    /\ index < Len(df_marking)
    /\ LET row == df_marking[index + 1]
           login == row_get(row, "Login")
           new_name == row_get(row, "feedback_filename")
           old_filename == report_name(login, config.ext)
           new_filename == report_name(new_name, config.ext)
       IN  IF Falsy(login) \/ Falsy(new_name)
           THEN /\ log' = Append(log, [ev |-> "skip",
                                       what |-> row["_index"] + 1])
                /\ UNCHANGED <<folder, generated_count, saved>>
           ELSE IF old_filename \in DOMAIN folder.entries
           THEN /\ folder' = [folder EXCEPT !.entries[Renamed].content =
                                 Put(@, new_filename,
                                     folder.entries[old_filename])]
                /\ generated_count' = generated_count + 1
                /\ saved' = Append(saved, new_filename)
                /\ log' = Append(log, [ev |-> "copied", what |-> new_filename])
           ELSE /\ log' = Append(log, [ev |-> "not found",
                                       what |-> old_filename])
                /\ UNCHANGED <<folder, generated_count, saved>>
    /\ index' = index + 1
    /\ UNCHANGED <<pc, config, marking_file, reference_file, df_marking,
                   df_reference, moodle, row_range, error, arg, res>>

\* after the loop: print the total
rename_end ==
    /\ pc = "rename"
    /\ index = Len(df_marking)
    /\ log' = Append(log, [ev |-> "total", what |-> generated_count])
    /\ pc' = "done"
    /\ UNCHANGED <<config, marking_file, reference_file, df_marking,
                   df_reference, folder, moodle, row_range, index,
                   generated_count, saved, error, arg, res>>

NextRename ==
    \/ rename_prepare
    \/ rename_row
    \/ rename_end

SpecRename == InitRename /\ [][NextRename]_vars

\* the files of renamed/
RenamedFiles == folder.entries[Renamed].content

\* C16: a step of rename_existing_reports on a row whose Login or feedback
\* filename is missing creates nothing; on any other row whose
\* '<Login>.<ext>' exists it leaves 'renamed/<feedback_filename>.<ext>' with
\* that file's content; on a row whose source is not there it creates nothing
\* and goes on; and the total printed is the number of files copied.
C16_RenameCopiesOrSkips ==
    [][pc = "rename" =>
        IF index < Len(df_marking)
        THEN LET row == df_marking[index + 1]
                 source == row["Login"] \o <<".">> \o config.ext
                 target == row["feedback_filename"] \o <<".">> \o config.ext
             IN  /\ pc' = "rename" /\ index' = index + 1 /\ error' = error
                 /\ IF MissingValue(row, "Login")
                          \/ MissingValue(row, "feedback_filename")
                          \/ source \notin DOMAIN folder.entries
                    THEN folder' = folder /\ saved' = saved
                    ELSE /\ target \in DOMAIN RenamedFiles'
                         /\ RenamedFiles'[target].content
                               = folder.entries[source].content
        ELSE /\ log'[Len(log')].ev = "total"
             /\ log'[Len(log')].what = Len(saved)]_vars

============================================================================
